---- MODULE Spec2Model ----
(***************************************************************************)
(* Model of GoogleVisionOcrModel (docling/models/google_vision_ocr_model.py) *)
(* The generator __call__ is a state machine: one action per resumption    *)
(* of the page loop and per iteration of the region loop.  Floating point  *)
(* values are modelled as exact reduced fractions [n, d].                  *)
(***************************************************************************)
EXTENDS Integers, Sequences, FiniteSets, TLC

VARIABLES enabled,        \* self.enabled
          visualize_ocr,  \* settings.debug.visualize_ocr
          page_batch,     \* the input iterable: page objects in input order
          consumed,       \* number of pages pulled from page_batch so far
          pc,             \* "next" | "rects" | "done" | "raised"
          page,           \* the page object of the current iteration (0: none)
          is_valid,       \* result of page._backend.is_valid() for it
          ocr_rects,      \* regions returned by get_ocr_rects(page)
          ri,             \* number of regions of ocr_rects already iterated
          response,       \* local: last service response
          cells,          \* local: cells built from the last response
          all_ocr_cells,  \* local: cells accumulated for the page
          calls,          \* region indices of the page sent to the service
          rasters,        \* get_page_image requests made for the page
          responses,      \* service responses received for the page
          log,            \* levels logged while processing the page
          yielded,        \* page objects yielded so far
          post_processed, \* page objects handed to post_process_cells
          handed,         \* cell list handed to post_process_cells for the page
          drawn           \* page objects handed to draw_ocr_rects_and_cells

vars == <<enabled, visualize_ocr, page_batch, consumed, pc, page, is_valid,
          ocr_rects, ri, response, cells, all_ocr_cells, calls, rasters,
          responses, log, yielded, post_processed, handed, drawn>>

\* ---------------------------------------------------------------- bounds
MaxPages == 2
MaxRects == 3

\* ------------------------------------------------------------- fractions
RECURSIVE Gcd(_, _)
Gcd(a, b) == IF b = 0 THEN a ELSE Gcd(b, a % b)

Frac(n, d) == LET g == Gcd(n, d) IN [n |-> n \div g, d |-> d \div g]

FracAdd(p, q) == Frac(p.n * q.d + q.n * p.d, p.d * q.d)

FracLeq(p, q) == p.n * q.d <= q.n * p.d

RECURSIVE SeqMin(_)
SeqMin(s) == IF Len(s) = 1 THEN s[1]
             ELSE LET m == SeqMin(Tail(s)) IN IF s[1] <= m THEN s[1] ELSE m

RECURSIVE SeqMax(_)
SeqMax(s) == IF Len(s) = 1 THEN s[1]
             ELSE LET m == SeqMax(Tail(s)) IN IF s[1] >= m THEN s[1] ELSE m

\* ---------------------------------------------------- program constants
scale == 3

FallbackConfidence == Frac(100, 1)

\* -------------------------------------------------- service responses
Sym(t, n, d) == [text |-> t, confidence |-> Frac(n, d)]

Vtx(x, y) == [x |-> x, y |-> y]

WordBox == [symbols |-> <<Sym("H", 8, 10), Sym("i", 9, 10), Sym("!", 10, 10)>>,
            vertices |-> <<Vtx(0, 0), Vtx(300, 0), Vtx(300, 300), Vtx(0, 300)>>]

WordNoSymbols == [symbols |-> <<>>,
                  vertices |-> <<Vtx(3, 6), Vtx(30, 6), Vtx(30, 15), Vtx(3, 15)>>]

WordTilted == [symbols |-> <<Sym("a", 1, 2)>>,
               vertices |-> <<Vtx(10, 1), Vtx(20, 10), Vtx(10, 22), Vtx(1, 10)>>]

WordPair == [symbols |-> <<Sym("o", 1, 4), Sym("k", 1, 2)>>,
             vertices |-> <<Vtx(40, 50), Vtx(100, 52), Vtx(99, 80), Vtx(41, 78)>>]

Para(ws) == [words |-> ws]

Block(ps) == [paragraphs |-> ps]

OcrPageA == [blocks |-> <<Block(<<Para(<<WordBox>>)>>)>>]

OcrPageB == [blocks |-> <<Block(<<Para(<<WordNoSymbols>>), Para(<<WordTilted>>)>>),
                          Block(<<Para(<<WordPair, WordBox>>)>>)>>]

Resp(msg, nann, ps) == [error_message |-> msg, text_annotations |-> nann, pages |-> ps]

RespError == Resp("quota exceeded", 1, <<OcrPageA>>)

RespEmpty == Resp("", 0, <<>>)

RespNoPages == Resp("", 1, <<>>)

RespOneB == Resp("", 5, <<OcrPageB>>)

RespTwo == Resp("", 5, <<OcrPageB, OcrPageA>>)

Responses == {RespError, RespEmpty, RespNoPages, RespOneB, RespTwo}

NoResponse == Resp("", 0, <<>>)

\* ------------------------------------------------------------- regions
Rect(l, t, r, b) == [l |-> l, t |-> t, r |-> r, b |-> b]

RectOffset == Rect(10, 20, 110, 120)

RectFlat == Rect(5, 5, 5, 40)

Rects == {RectOffset, RectFlat}

areaPerimeter(rc) == (rc.r - rc.l) + (rc.b - rc.t)

area(rc) == (rc.r - rc.l) * (rc.b - rc.t)

RectLists == UNION {[1..n -> Rects] : n \in 0..MaxRects}

\* ------------------------------------------------ response translation
RECURSIVE Flatten(_)
Flatten(ss) == IF ss = <<>> THEN <<>> ELSE Head(ss) \o Flatten(Tail(ss))

ParagraphsOf(ocr_page) == Flatten([i \in 1..Len(ocr_page.blocks) |-> ocr_page.blocks[i].paragraphs])

WordsOf(ocr_page) == LET ps == ParagraphsOf(ocr_page)
                     IN Flatten([i \in 1..Len(ps) |-> ps[i].words])

RECURSIVE word_text(_)
word_text(symbols) == IF symbols = <<>> THEN ""
                      ELSE Head(symbols).text \o word_text(Tail(symbols))

RECURSIVE ConfSum(_)
ConfSum(symbols) == IF symbols = <<>> THEN Frac(0, 1)
                    ELSE FracAdd(Head(symbols).confidence, ConfSum(Tail(symbols)))

MeanUndivided(symbols) == ConfSum(symbols)

Mean(symbols) == LET s == ConfSum(symbols) IN Frac(s.n, s.d * Len(symbols))

conf(word) == IF word.symbols # <<>> THEN Mean(word.symbols) ELSE FallbackConfidence

x_vals(word) == [i \in 1..Len(word.vertices) |-> word.vertices[i].x]

y_vals(word) == [i \in 1..Len(word.vertices) |-> word.vertices[i].y]

DivisorOffByOne == scale - 1

Divisor == scale

BoundingRect(word) == [l |-> Frac(SeqMin(x_vals(word)), Divisor),
                       t |-> Frac(SeqMin(y_vals(word)), Divisor),
                       r |-> Frac(SeqMax(x_vals(word)), Divisor),
                       b |-> Frac(SeqMax(y_vals(word)), Divisor),
                       origin |-> "TOPLEFT"]

CellIndex(cs) == Len(cs)

TextCell(word, cs) == [index |-> CellIndex(cs),
                       text |-> word_text(word.symbols),
                       orig |-> word_text(word.symbols),
                       from_ocr |-> TRUE,
                       confidence |-> conf(word),
                       rect |-> BoundingRect(word)]

RECURSIVE AppendCells(_, _)
AppendCells(cs, words) == IF words = <<>> THEN cs
                          ELSE AppendCells(Append(cs, TextCell(Head(words), cs)), Tail(words))

CellsOf(resp) == AppendCells(<<>>, WordsOf(resp.pages[1]))

\* ---------------------------------------------------------------- state
PageIds == 1..MaxPages

\* Batches of distinct page objects; the object at position i of a batch of
\* n pages is n + 1 - i, so that positions and objects differ.
Batches == {[i \in 1..n |-> n + 1 - i] : n \in 0..MaxPages}

Init == /\ enabled \in BOOLEAN
        /\ visualize_ocr \in BOOLEAN
        /\ page_batch \in Batches
        /\ consumed = 0
        /\ pc = "next"
        /\ page = 0
        /\ is_valid = FALSE
        /\ ocr_rects = <<>>
        /\ ri = 0
        /\ response = NoResponse
        /\ cells = <<>>
        /\ all_ocr_cells = <<>>
        /\ calls = <<>>
        /\ rasters = <<>>
        /\ responses = <<>>
        /\ log = <<>>
        /\ yielded = <<>>
        /\ post_processed = <<>>
        /\ handed = <<>>
        /\ drawn = <<>>

locals == <<page, is_valid, ocr_rects, ri, response, cells, all_ocr_cells,
            calls, rasters, responses, log>>

effects == <<post_processed, handed, drawn>>

config == <<enabled, visualize_ocr, page_batch>>

PassThroughReversed == /\ ~enabled
                       /\ pc = "next"
                       /\ consumed < Len(page_batch)
                       /\ consumed' = consumed + 1
                       /\ yielded' = <<page_batch[consumed + 1]>> \o yielded
                       /\ UNCHANGED <<config, pc, locals, effects>>

\* `yield from page_batch` of a disabled adapter: hand the next page on.
PassThrough == /\ ~enabled
               /\ pc = "next"
               /\ consumed < Len(page_batch)
               /\ consumed' = consumed + 1
               /\ yielded' = Append(yielded, page_batch[consumed + 1])
               /\ UNCHANGED <<config, pc, locals, effects>>

\* The input iterable is exhausted: the generator returns.
Exhausted == /\ pc = "next"
             /\ consumed = Len(page_batch)
             /\ pc' = "done"
             /\ UNCHANGED <<config, consumed, locals, effects, yielded>>

InvalidPagePostProcessed == /\ enabled
                            /\ pc = "next"
                            /\ consumed < Len(page_batch)
                            /\ consumed' = consumed + 1
                            /\ page' = page_batch[consumed + 1]
                            /\ is_valid' = FALSE
                            /\ post_processed' = Append(post_processed, page_batch[consumed + 1])
                            /\ yielded' = Append(yielded, page_batch[consumed + 1])
                            /\ UNCHANGED <<config, pc, ocr_rects, ri, response, cells,
                                           all_ocr_cells, calls, rasters, responses, log,
                                           handed, drawn>>

\* Enabled adapter, page whose backend is not valid: yield it as it is.
InvalidPage == /\ enabled
               /\ pc = "next"
               /\ consumed < Len(page_batch)
               /\ consumed' = consumed + 1
               /\ page' = page_batch[consumed + 1]
               /\ is_valid' = FALSE
               /\ yielded' = Append(yielded, page_batch[consumed + 1])
               /\ UNCHANGED <<config, pc, ocr_rects, ri, response, cells,
                              all_ocr_cells, calls, rasters, responses, log, effects>>

\* Enabled adapter, valid page: compute the regions, start with no cells.
BeginPage == /\ enabled
             /\ pc = "next"
             /\ consumed < Len(page_batch)
             /\ consumed' = consumed + 1
             /\ page' = page_batch[consumed + 1]
             /\ is_valid' = TRUE
             /\ \E rs \in RectLists : ocr_rects' = rs
             /\ ri' = 0
             /\ all_ocr_cells' = <<>>
             /\ calls' = <<>>
             /\ rasters' = <<>>
             /\ responses' = <<>>
             /\ log' = <<>>
             /\ response' = NoResponse
             /\ cells' = <<>>
             /\ handed' = <<>>
             /\ pc' = "rects"
             /\ UNCHANGED <<config, post_processed, drawn, yielded>>

InRegionLoop == pc = "rects" /\ ri < Len(ocr_rects)

ocr_rect == ocr_rects[ri + 1]

\* A region of zero area is skipped.
ZeroAreaRect == /\ InRegionLoop
                /\ area(ocr_rect) = 0
                /\ ri' = ri + 1
                /\ UNCHANGED <<config, consumed, pc, page, is_valid, ocr_rects,
                               response, cells, all_ocr_cells, calls, rasters,
                               responses, log, effects, yielded>>

\* Rasterize the region and submit it; resp is the service's answer.
Submit(resp) == /\ InRegionLoop
                /\ area(ocr_rect) # 0
                /\ rasters' = Append(rasters, [scale |-> scale, cropbox |-> ocr_rect])
                /\ calls' = Append(calls, ri + 1)
                /\ responses' = Append(responses, resp)
                /\ response' = resp
                /\ UNCHANGED <<config, consumed, page, is_valid, ocr_rects,
                               yielded, post_processed, handed, drawn>>

HasError(resp) == resp.error_message # ""

NoAnnotations(resp) == resp.text_annotations = 0

DetectErrorBreaks == \E resp \in Responses :
                       /\ Submit(resp)
                       /\ HasError(resp)
                       /\ log' = Append(log, "error")
                       /\ ri' = Len(ocr_rects)
                       /\ UNCHANGED <<pc, cells, all_ocr_cells>>

\* The service reports an error: log it, go on with the next region.
DetectError == \E resp \in Responses :
                 /\ Submit(resp)
                 /\ HasError(resp)
                 /\ log' = Append(log, "error")
                 /\ ri' = ri + 1
                 /\ UNCHANGED <<pc, cells, all_ocr_cells>>

\* No text annotations: log it, go on with the next region.
DetectEmpty == \E resp \in Responses :
                 /\ Submit(resp)
                 /\ ~HasError(resp)
                 /\ NoAnnotations(resp)
                 /\ log' = Append(log, "error")
                 /\ ri' = ri + 1
                 /\ UNCHANGED <<pc, cells, all_ocr_cells>>

PageCountLog(resp) == IF Len(resp.pages) # 1 THEN <<"warning">> ELSE <<>>

\* Annotations but no page: pages[0] raises IndexError out of the generator.
DetectNoPages == \E resp \in Responses :
                   /\ Submit(resp)
                   /\ ~HasError(resp)
                   /\ ~NoAnnotations(resp)
                   /\ Len(resp.pages) = 0
                   /\ log' = log \o PageCountLog(resp)
                   /\ cells' = <<>>
                   /\ pc' = "raised"
                   /\ UNCHANGED <<ri, all_ocr_cells>>

\* Annotations with at least one page: cells of the first page are added.
DetectCells == \E resp \in Responses :
                 /\ Submit(resp)
                 /\ ~HasError(resp)
                 /\ ~NoAnnotations(resp)
                 /\ Len(resp.pages) > 0
                 /\ log' = log \o PageCountLog(resp)
                 /\ cells' = CellsOf(resp)
                 /\ all_ocr_cells' = all_ocr_cells \o CellsOf(resp)
                 /\ ri' = ri + 1
                 /\ UNCHANGED pc

FinishPageNoYield == /\ pc = "rects"
                     /\ ri = Len(ocr_rects)
                     /\ post_processed' = Append(post_processed, page)
                     /\ handed' = all_ocr_cells
                     /\ drawn' = IF visualize_ocr THEN Append(drawn, page) ELSE drawn
                     /\ pc' = "next"
                     /\ UNCHANGED <<config, consumed, locals, yielded>>

\* All regions done: post-process, draw when asked to, yield the page.
FinishPage == /\ pc = "rects"
              /\ ri = Len(ocr_rects)
              /\ post_processed' = Append(post_processed, page)
              /\ handed' = all_ocr_cells
              /\ drawn' = IF visualize_ocr THEN Append(drawn, page) ELSE drawn
              /\ yielded' = Append(yielded, page)
              /\ pc' = "next"
              /\ UNCHANGED <<config, consumed, locals>>

Next == \/ PassThrough
        \/ Exhausted
        \/ InvalidPage
        \/ BeginPage
        \/ ZeroAreaRect
        \/ DetectError
        \/ DetectEmpty
        \/ DetectNoPages
        \/ DetectCells
        \/ FinishPage

Spec == Init /\ [][Next]_vars

TypeOK == /\ pc \in {"next", "rects", "done", "raised"}
          /\ consumed \in 0..Len(page_batch)
          /\ ri \in 0..Len(ocr_rects)
          /\ Len(calls) = Len(responses)
          /\ Len(calls) = Len(rasters)

\* ------------------------------------------------------------ properties
Last(q) == q[Len(q)]

InSeq(x, q) == \E i \in 1..Len(q) : q[i] = x

Succeeded(resp) == resp.error_message = "" /\ resp.text_annotations > 0 /\ Len(resp.pages) > 0

Degenerate(rc) == rc.l = rc.r \/ rc.t = rc.b

\* The page of the current iteration went through the region loop and was
\* handed on: the generator is suspended at the yield of line 157.
PageCompleted == pc = "next" /\ page # 0 /\ is_valid

\* C1: a disabled adapter yields exactly the input pages, the same objects in
\* the same order, each once, and makes no remote call, computes no regions,
\* rasterizes nothing and invokes neither post-processing nor drawing.
C1_DisabledPassThrough ==
    ~enabled =>
        /\ yielded = SubSeq(page_batch, 1, consumed)
        /\ (pc = "done" => yielded = page_batch)
        /\ pc \in {"next", "done"}
        /\ calls = <<>>
        /\ rasters = <<>>
        /\ ocr_rects = <<>>
        /\ post_processed = <<>>
        /\ drawn = <<>>

C1_Witness == /\ ~enabled
              /\ visualize_ocr
              /\ pc = "done"
              /\ Len(yielded) = MaxPages
              /\ yielded[1] = MaxPages

RECURSIVE ExpectedCells(_)
ExpectedCells(rs) ==
    IF rs = <<>> THEN <<>>
    ELSE LET r == Head(rs)
         IN (IF r.error_message # "" \/ r.text_annotations = 0 \/ Len(r.pages) = 0
             THEN <<>> ELSE CellsOf(r)) \o ExpectedCells(Tail(rs))

NonDegenerateCount(rs) == Cardinality({i \in 1..Len(rs) : ~Degenerate(rs[i])})

\* C2: a region answered with an error message or with no text annotations
\* contributes no cells and does not stop the page: the cells accumulated, and
\* handed to post-processing, are those of every other region in region
\* order, every region of non-zero area is still asked, and the page is
\* yielded.
C2_ErrorRegionSkipped ==
    /\ pc = "rects" => all_ocr_cells = ExpectedCells(responses)
    /\ pc = "raised" => response.error_message = "" /\ response.text_annotations > 0
    /\ PageCompleted =>
          /\ handed = ExpectedCells(responses)
          /\ Len(responses) = NonDegenerateCount(ocr_rects)
          /\ Last(post_processed) = page
          /\ Last(yielded) = page

C2_Witness == /\ PageCompleted
              /\ Len(responses) = 3
              /\ Succeeded(responses[1])
              /\ responses[2].error_message # ""
              /\ Succeeded(responses[3])
              /\ Len(handed) = Len(CellsOf(responses[1])) + Len(CellsOf(responses[3]))
              /\ Len(handed) > 2

\* C3: the cells handed to post-processing carry the indices 0, 1, ..., n-1
\* in list order, across all regions of the page.
C3_IndicesContiguous ==
    /\ \A i \in 1..Len(all_ocr_cells) : all_ocr_cells[i].index = i - 1
    /\ \A i \in 1..Len(handed) : handed[i].index = i - 1

InvalidPageStep == enabled /\ pc = "next" /\ consumed' = consumed + 1 /\ ~is_valid'

\* C4: the step that takes a page with an invalid backend yields that page and
\* nothing else happens: no regions, no raster, no remote call, no
\* post-processing, no drawing, no error; the generator is back at the top of
\* the page loop, ready for the following page.
C4_InvalidPageUntouched ==
    [][InvalidPageStep =>
          /\ yielded' = Append(yielded, page_batch[consumed'])
          /\ page' = page_batch[consumed']
          /\ pc' = "next"
          /\ UNCHANGED <<ocr_rects, rasters, calls, responses,
                         post_processed, handed, drawn, log>>]_vars

C4_Witness == /\ enabled
              /\ visualize_ocr
              /\ PageCompleted
              /\ yielded = page_batch
              /\ Len(yielded) = 2
              /\ post_processed = <<yielded[2]>>
              /\ drawn = <<yielded[2]>>
              /\ Len(calls) > 0

RECURSIVE NonDegenerateUpTo(_, _)
NonDegenerateUpTo(rs, k) ==
    IF k = 0 THEN <<>>
    ELSE IF Degenerate(rs[k]) THEN NonDegenerateUpTo(rs, k - 1)
         ELSE Append(NonDegenerateUpTo(rs, k - 1), k)

\* C5: the calls made for a page are, in region order, exactly the regions of
\* non-zero area iterated so far, each once and each with its own raster; a
\* region of zero area gets neither a raster nor a call; when the page is
\* handed on they are all the page's regions of non-zero area.
C5_OneCallPerNonEmptyRegion ==
    /\ pc = "rects" => calls = NonDegenerateUpTo(ocr_rects, ri)
    /\ pc = "raised" => calls = NonDegenerateUpTo(ocr_rects, ri + 1)
    /\ PageCompleted => calls = NonDegenerateUpTo(ocr_rects, Len(ocr_rects))
    /\ Len(rasters) = Len(calls)
    /\ Len(responses) = Len(calls)
    /\ \A k \in 1..Len(calls) : rasters[k].cropbox = ocr_rects[calls[k]]

C5_Witness == /\ PageCompleted
              /\ Len(ocr_rects) = 3
              /\ Degenerate(ocr_rects[2])
              /\ calls = <<1, 3>>
              /\ responses[1].error_message # ""
              /\ Succeeded(responses[2])

OnePageOutcome(resp) == resp.error_message # "" \/ resp.text_annotations = 0 \/ Len(resp.pages) = 1

\* C6: an enabled adapter yields the input pages in input order, each once;
\* while a page is in its region loop it has been neither post-processed nor
\* yielded and every page before it has been yielded; a completed page was
\* post-processed and yielded before the next one is taken; when the input
\* is exhausted every page has been yielded; and nothing is raised as long as
\* each answer is an error, empty, or a success with exactly one page.
C6_SequentialStream ==
    enabled =>
        /\ yielded = SubSeq(page_batch, 1, Len(yielded))
        /\ Len(yielded) = (IF pc \in {"rects", "raised"} THEN consumed - 1 ELSE consumed)
        /\ pc = "done" => yielded = page_batch
        /\ pc = "raised" => ~OnePageOutcome(response)
        /\ pc = "rects" => ~InSeq(page, yielded) /\ ~InSeq(page, post_processed)
        /\ PageCompleted => Last(yielded) = page /\ Last(post_processed) = page
        /\ \A i \in 1..Len(post_processed) : InSeq(post_processed[i], SubSeq(page_batch, 1, consumed))
        /\ Len(post_processed) <= Len(yielded)

C6_Witness == /\ enabled
              /\ pc = "done"
              /\ Len(yielded) = 2
              /\ yielded = <<2, 1>>
              /\ Len(post_processed) = 1
              /\ Len(calls) >= 2
              /\ \A k \in 1..Len(responses) : OnePageOutcome(responses[k])
              /\ \E k \in 1..Len(responses) : responses[k].error_message # ""
              /\ \E k \in 1..Len(responses) : Succeeded(responses[k])

\* The local list cells was built from the local response: the last region
\* iteration went past both `continue` branches and past pages[0].
CellsBuilt == pc # "raised" /\ responses # <<>> /\ Succeeded(response)

SourceWord(i) == WordsOf(response.pages[1])[i]

RasterScale == Last(rasters).scale

\* q = v / k for the fraction q and the integers v, k
IsQuotient(q, v, k) == q.d > 0 /\ q.n * k = v * q.d

IsLeast(v, vs) == InSeq(v, vs) /\ \A i \in 1..Len(vs) : v <= vs[i]

IsGreatest(v, vs) == InSeq(v, vs) /\ \A i \in 1..Len(vs) : v >= vs[i]

Xs(w) == [i \in 1..Len(w.vertices) |-> w.vertices[i].x]

Ys(w) == [i \in 1..Len(w.vertices) |-> w.vertices[i].y]

Spans(w, lo, hi) == /\ IsLeast(lo, Xs(w)) /\ IsLeast(lo, Ys(w))
                    /\ IsGreatest(hi, Xs(w)) /\ IsGreatest(hi, Ys(w))

\* C7: each cell's rectangle is (min x, min y, max x, max y) of its word's
\* vertices, each divided by the scale the region was rasterized with, which
\* is 3; vertices spanning (0,0)-(300,300) give (0,0)-(100,100); left <= right
\* and top <= bottom.
C7_CoordinateMapping ==
    CellsBuilt =>
        /\ RasterScale = 3
        /\ Len(cells) = Len(WordsOf(response.pages[1]))
        /\ \A i \in 1..Len(cells) :
              LET w == SourceWord(i)
                  rc == cells[i].rect
              IN /\ \E x \in {w.vertices[j].x : j \in 1..Len(w.vertices)} :
                        IsLeast(x, Xs(w)) /\ IsQuotient(rc.l, x, RasterScale)
                 /\ \E y \in {w.vertices[j].y : j \in 1..Len(w.vertices)} :
                        IsLeast(y, Ys(w)) /\ IsQuotient(rc.t, y, RasterScale)
                 /\ \E x \in {w.vertices[j].x : j \in 1..Len(w.vertices)} :
                        IsGreatest(x, Xs(w)) /\ IsQuotient(rc.r, x, RasterScale)
                 /\ \E y \in {w.vertices[j].y : j \in 1..Len(w.vertices)} :
                        IsGreatest(y, Ys(w)) /\ IsQuotient(rc.b, y, RasterScale)
                 /\ rc.l.n * rc.r.d <= rc.r.n * rc.l.d
                 /\ rc.t.n * rc.b.d <= rc.b.n * rc.t.d
                 /\ Spans(w, 0, 300) =>
                        /\ rc.l = [n |-> 0, d |-> 1] /\ rc.t = [n |-> 0, d |-> 1]
                        /\ rc.r = [n |-> 100, d |-> 1] /\ rc.b = [n |-> 100, d |-> 1]

C7_Witness == /\ CellsBuilt
              /\ \E i \in 1..Len(cells) : Spans(SourceWord(i), 0, 300)
              /\ \E i \in 1..Len(cells) : cells[i].rect.l.d = 3 /\ cells[i].rect.b.d = 3
              /\ \E i \in 1..Len(cells) :
                    LET w == SourceWord(i) IN w.vertices[1].y # w.vertices[2].y

RECURSIVE DenProduct(_)
DenProduct(syms) == IF syms = <<>> THEN 1
                    ELSE Head(syms).confidence.d * DenProduct(Tail(syms))

RECURSIVE ScaledTotal(_, _)
ScaledTotal(syms, k) ==
    IF syms = <<>> THEN 0
    ELSE Head(syms).confidence.n * (k \div Head(syms).confidence.d) + ScaledTotal(Tail(syms), k)

Joined(syms) == CASE Len(syms) = 0 -> ""
                  [] Len(syms) = 1 -> syms[1].text
                  [] Len(syms) = 2 -> syms[1].text \o syms[2].text
                  [] Len(syms) = 3 -> syms[1].text \o syms[2].text \o syms[3].text

\* C8: a cell's confidence is the mean of its word's symbol confidences when
\* there are symbols (in [0,1] when they all are) and the fallback constant
\* when there are none; text and orig are the symbol texts joined in order;
\* from_ocr is set.
C8_ConfidenceAndText ==
    CellsBuilt =>
        \A i \in 1..Len(cells) :
            LET syms == SourceWord(i).symbols
                c == cells[i]
                k == DenProduct(syms)
            IN /\ syms = <<>> => c.confidence = [n |-> 100, d |-> 1]
               /\ syms # <<>> =>
                     /\ c.confidence.d > 0
                     /\ c.confidence.n * Len(syms) * k = ScaledTotal(syms, k) * c.confidence.d
                     /\ ((\A j \in 1..Len(syms) : syms[j].confidence.n <= syms[j].confidence.d)
                            => 0 <= c.confidence.n /\ c.confidence.n <= c.confidence.d)
               /\ c.text = Joined(syms)
               /\ c.orig = Joined(syms)
               /\ c.from_ocr

C8_Witness == /\ CellsBuilt
              /\ \E i \in 1..Len(cells) :
                    /\ Len(SourceWord(i).symbols) = 3
                    /\ cells[i].confidence = [n |-> 9, d |-> 10]
                    /\ cells[i].text = "Hi!"
              /\ \E i \in 1..Len(cells) :
                    /\ SourceWord(i).symbols = <<>>
                    /\ cells[i].text = ""
              /\ \E i \in 1..Len(cells) : cells[i].confidence = [n |-> 3, d |-> 8]

\* C9: a response without error and with text annotations whose structured
\* annotation has a page count other than one is warned about and processed
\* from its first page: nothing is raised.
C9_PageCountTolerated ==
    (/\ responses # <<>>
     /\ response.error_message = ""
     /\ response.text_annotations > 0
     /\ Len(response.pages) # 1)
    => /\ pc # "raised"
       /\ Last(log) = "warning"

Region == ocr_rects[Last(calls)]

InRaster(w, rc) == \A j \in 1..Len(w.vertices) :
                      /\ 0 <= w.vertices[j].x /\ w.vertices[j].x <= scale * (rc.r - rc.l)
                      /\ 0 <= w.vertices[j].y /\ w.vertices[j].y <= scale * (rc.b - rc.t)

\* C10: a cell built from a word lying inside the raster of its region has
\* its rectangle inside that region's rectangle on the page.
C10_CellInsideRegion ==
    CellsBuilt =>
        \A i \in 1..Len(cells) :
            InRaster(SourceWord(i), Region) =>
                LET rc == cells[i].rect
                IN /\ Region.l * rc.l.d <= rc.l.n
                   /\ Region.t * rc.t.d <= rc.t.n
                   /\ rc.r.n <= Region.r * rc.r.d
                   /\ rc.b.n <= Region.b * rc.b.d
====
